---- MODULE Spec2Model ----
(***************************************************************************)
(* A model of src/xbrl_mcp_server.py: the three tool handlers get_filings, *)
(* get_filing and get_entity, and the helper make_xbrl_request they share. *)
(*                                                                         *)
(* Python values are tagged records.  A string is a sequence of one        *)
(* character strings, so that upper(), strip(), split('T'), str() and the  *)
(* f-strings are computed character by character.  A dict is a record of   *)
(* its keys; a key whose value is Absent is not in the dict.               *)
(***************************************************************************)
EXTENDS Integers, Sequences, FiniteSets, TLC

VARIABLES
    pc,          \* per invocation: "idle", "awaiting", "closing", "done"
    call,        \* per invocation: the tool called and its arguments
    request,     \* per invocation: the url and params handed to client.get
    client,      \* per invocation: the AsyncClient it holds (0: none)
    open,        \* the AsyncClient objects entered and not yet exited
    nextClient,  \* the number of AsyncClient objects constructed so far
    sent,        \* per invocation: the number of client.get calls issued
    reply,       \* per invocation: how the upstream GET ended
    pending,     \* per invocation: the outcome of the try body of make_xbrl_request
    result       \* per invocation: what the handler returned or raised

vars == <<pc, call, request, client, open, nextClient, sent, reply, pending, result>>

----------------------------------------------------------------------------
(* Python values *)

Absent == [t |-> "absent"]
Null == [t |-> "null"]
Str(cs) == [t |-> "str", s |-> cs]
Num(n) == [t |-> "int", n |-> n]
List(l) == [t |-> "list", l |-> l]
Dict(d) == [t |-> "dict", d |-> d]

\* The literal {} given as a default to dict.get.
EmptyDict == Dict([id |-> Absent])

\* What an expression evaluates to: a value, or an exception with its message.
Ret(v) == [kind |-> "return", val |-> v, exc |-> "", msg |-> <<>>]
Exc(e, m) == [kind |-> "raise", val |-> Null, exc |-> e, msg |-> m]
NoResult == [kind |-> "none", val |-> Null, exc |-> "", msg |-> <<>>]

\* d[k] is a key of the dict d.
Has(d, k) == k \in DOMAIN d.d /\ d.d[k] # Absent

\* d.get(k, default), for a dict d.
Get(d, k, default) == IF Has(d, k) THEN d.d[k] ELSE default

\* Python's truth value of v ("if v", "not v").
Truthy(v) ==
    CASE v.t = "null" -> FALSE
      [] v.t = "str" -> v.s # <<>>
      [] v.t = "int" -> v.n # 0
      [] v.t = "list" -> v.l # <<>>
      [] v.t = "dict" -> \E k \in DOMAIN v.d : v.d[k] # Absent

\* A value that can be a dict key or be looked up in a dict.
Hashable(v) == v.t \in {"null", "str", "int"}

----------------------------------------------------------------------------
(* Strings *)

Chars_https == <<"h", "t", "t", "p", "s", ":", "/", "/">>
Chars_host == <<"f", "i", "l", "i", "n", "g", "s", ".", "x", "b", "r", "l", ".", "o", "r", "g">>
XBRL_API_BASE == Chars_https \o Chars_host \o <<"/", "a", "p", "i">>

UnknownEntity ==
    Str(<<"U", "n", "k", "n", "o", "w", "n", " ", "E", "n", "t", "i", "t", "y">>)

\* "-processed" and "entity", the fixed query parameters.
SortProcessed == Str(<<"-", "p", "r", "o", "c", "e", "s", "s", "e", "d">>)
IncludeEntity == Str(<<"e", "n", "t", "i", "t", "y">>)
TypeEntities == Str(<<"e", "n", "t", "i", "t", "i", "e", "s">>)

Digit(d) == <<"0", "1", "2", "3", "4", "5", "6", "7", "8", "9">>[d + 1]

RECURSIVE DigitsOf(_)
DigitsOf(n) == IF n < 10 THEN <<Digit(n)>> ELSE DigitsOf(n \div 10) \o <<Digit(n % 10)>>

\* str(n) of an int.
PyStr(n) == IF n < 0 THEN <<"-">> \o DigitsOf(0 - n) ELSE DigitsOf(n)

\* c.upper() of one character.
UpperChar(c) ==
    CASE c = "u" -> "U"
      [] c = "s" -> "S"
      [] c = "g" -> "G"
      [] c = "b" -> "B"
      [] OTHER -> c

\* s.upper()
Upper(s) == [i \in 1..Len(s) |-> UpperChar(s[i])]

IsSpace(c) == c \in {" ", "\t", "\n"}

RECURSIVE LStrip(_)
LStrip(s) == IF s # <<>> /\ IsSpace(Head(s)) THEN LStrip(Tail(s)) ELSE s

RECURSIVE RStrip(_)
RStrip(s) ==
    IF s # <<>> /\ IsSpace(s[Len(s)]) THEN RStrip(SubSeq(s, 1, Len(s) - 1)) ELSE s

\* s.strip()
Strip(s) == RStrip(LStrip(s))

\* s.split(c): the pieces of s between the occurrences of the character c.
RECURSIVE Split(_, _)
Split(s, c) ==
    IF \A i \in 1..Len(s) : s[i] # c
    THEN <<s>>
    ELSE LET i == CHOOSE j \in 1..Len(s) :
                      s[j] = c /\ \A k \in 1..(j - 1) : s[k] # c
         IN <<SubSeq(s, 1, i - 1)>> \o Split(SubSeq(s, i + 1, Len(s)), c)

\* x occurs in s as a substring.
Contains(s, x) ==
    \E i \in 0..(Len(s) - Len(x)) : SubSeq(s, i + 1, i + Len(x)) = x

----------------------------------------------------------------------------
(* The body of the handlers after the upstream response has been parsed *)

\* "'T' in v" for a truthy v: TRUE, FALSE, or an exception.
ContainsT(v) ==
    CASE v.t = "str" -> Ret(\E i \in 1..Len(v.s) : v.s[i] = "T")
      [] v.t = "list" -> Ret(\E i \in 1..Len(v.l) : v.l[i] = Str(<<"T">>))
      [] v.t = "dict" -> Ret(Has(v, "T"))
      [] OTHER -> Exc("TypeError", <<>>)

\* A "Process date" block without its else branch: a timestamp without a T
\* is kept as it is.
ProcessDateNoElse(attributes) ==
    LET processed_date == Get(attributes, "processed", Str(<<>>))
    IN  IF ~Truthy(processed_date) THEN Ret(processed_date)
        ELSE LET hasT == ContainsT(processed_date)
             IN  IF hasT.kind = "raise" THEN hasT
                 ELSE IF ~hasT.val THEN Ret(processed_date)
                 ELSE IF processed_date.t # "str" THEN Exc("AttributeError", <<>>)
                 ELSE Ret(Str(Split(processed_date.s, "T")[1]))

\* The "Process date" block of get_filings and get_filing.
ProcessDate(attributes) ==
    LET processed_date == Get(attributes, "processed", Str(<<>>))
    IN  IF ~Truthy(processed_date) THEN Ret(Null)
        ELSE LET hasT == ContainsT(processed_date)
             IN  IF hasT.kind = "raise" THEN hasT
                 ELSE IF ~hasT.val THEN Ret(Null)
                 ELSE IF processed_date.t # "str" THEN Exc("AttributeError", <<>>)
                 ELSE Ret(Str(Split(processed_date.s, "T")[1]))

\* The record with the counts read without a default.
FilingRecordNoDefault(filing, attributes, entity_name, processed_date) ==
    Dict([id |-> Get(filing, "id", Null),
          entity_name |-> entity_name,
          processed_date |-> processed_date,
          country |-> Get(attributes, "country", Null),
          report_url |-> Get(attributes, "report_url", Null),
          errors_count |-> Get(attributes, "errors_count", Null),
          warnings_count |-> Get(attributes, "warnings_count", Null)])

\* The dict a filing is flattened to.
FilingRecord(filing, attributes, entity_name, processed_date) ==
    Dict([id |-> Get(filing, "id", Null),
          entity_name |-> entity_name,
          processed_date |-> processed_date,
          country |-> Get(attributes, "country", Null),
          report_url |-> Get(attributes, "report_url", Null),
          errors_count |-> Get(attributes, "errors_count", Num(0)),
          warnings_count |-> Get(attributes, "warnings_count", Num(0))])

\* The iteration "for item in v": the items in order, or an exception.  (The
\* documents below hold no dict where the code iterates.)
Iterate(v) ==
    CASE v.t = "list" -> Ret(v.l)
      [] v.t = "str" -> Ret([i \in 1..Len(v.s) |-> Str(<<v.s[i]>>)])
      [] v.t \in {"null", "int"} -> Exc("TypeError", <<>>)

\* The "Process included entities" loop of get_filings: the dict
\* included_entities (a function from ids to attributes), or an exception.
RECURSIVE IncludedEntities(_, _)
IncludedEntities(items, acc) ==
    IF items = <<>> THEN [kind |-> "return", map |-> acc]
    ELSE LET item == Head(items)
         IN  IF item.t # "dict" THEN [kind |-> "raise", exc |-> "AttributeError"]
             ELSE IF Get(item, "type", Null) # TypeEntities
                  THEN IncludedEntities(Tail(items), acc)
             ELSE IF ~Has(item, "id") THEN [kind |-> "raise", exc |-> "KeyError"]
             ELSE IF ~Hashable(item.d.id) THEN [kind |-> "raise", exc |-> "TypeError"]
             ELSE IncludedEntities(Tail(items),
                     [x \in DOMAIN acc \cup {item.d.id} |->
                         IF x = item.d.id THEN Get(item, "attributes", EmptyDict)
                         ELSE acc[x]])

NoEntities == [x \in {} |-> Null]

\* The body of the per-filing try block of get_filings: the record appended
\* to filings_list, or the exception the except clause catches.
ProcessFiling(filing, included_entities) ==
    IF filing.t # "dict" THEN Exc("AttributeError", <<>>)
    ELSE
    LET attributes == Get(filing, "attributes", EmptyDict)
        relationships == Get(filing, "relationships", EmptyDict)
    IN  IF relationships.t # "dict" THEN Exc("AttributeError", <<>>)
        ELSE
        LET entity == Get(relationships, "entity", EmptyDict)
        IN  IF entity.t # "dict" THEN Exc("AttributeError", <<>>)
            ELSE
            LET entity_rel == Get(entity, "data", EmptyDict)
            IN  IF entity_rel.t # "dict" THEN Exc("AttributeError", <<>>)
                ELSE
                LET entity_id == Get(entity_rel, "id", Null)
                IN  IF Truthy(entity_id) /\ ~Hashable(entity_id)
                    THEN Exc("TypeError", <<>>)
                    ELSE
                    LET found == Truthy(entity_id)
                                   /\ entity_id \in DOMAIN included_entities
                    IN  IF found /\ included_entities[entity_id].t # "dict"
                        THEN Exc("AttributeError", <<>>)
                        ELSE
                        LET entity_name ==
                                IF found
                                THEN Get(included_entities[entity_id], "name",
                                         UnknownEntity)
                                ELSE UnknownEntity
                        IN  IF attributes.t # "dict"
                            THEN Exc("AttributeError", <<>>)
                            ELSE
                            LET date == ProcessDate(attributes)
                            IN  IF date.kind = "raise" THEN date
                                ELSE Ret(FilingRecord(filing, attributes,
                                                      entity_name, date.val))

\* A loop that leaves at the first filing whose processing raises (break
\* where the code has continue).
RECURSIVE ProcessFilingsBreak(_, _)
ProcessFilingsBreak(filings, included_entities) ==
    IF filings = <<>> THEN <<>>
    ELSE LET r == ProcessFiling(Head(filings), included_entities)
         IN  IF r.kind = "raise" THEN <<>>
             ELSE <<r.val>> \o ProcessFilingsBreak(Tail(filings), included_entities)

\* The "Process filings" loop of get_filings: a filing whose processing
\* raises is logged and skipped.
RECURSIVE ProcessFilings(_, _)
ProcessFilings(filings, included_entities) ==
    IF filings = <<>> THEN <<>>
    ELSE LET r == ProcessFiling(Head(filings), included_entities)
             rest == ProcessFilings(Tail(filings), included_entities)
         IN  IF r.kind = "raise" THEN rest ELSE <<r.val>> \o rest

\* A get_filings that returns early on an empty response only, not on an
\* empty data member.
get_filings_without_data_check(response_data) ==
    IF ~Truthy(response_data) THEN Ret(List(<<>>))
    ELSE IF response_data.t # "dict" THEN Exc("AttributeError", <<>>)
    ELSE
    LET items == Iterate(Get(response_data, "included", List(<<>>)))
    IN  IF items.kind = "raise" THEN items
        ELSE
        LET included == IncludedEntities(items.val, NoEntities)
        IN  IF included.kind = "raise" THEN Exc(included.exc, <<>>)
            ELSE IF ~Has(response_data, "data") THEN Exc("KeyError", <<>>)
            ELSE
            LET filings == Iterate(response_data.d.data)
            IN  IF filings.kind = "raise" THEN filings
                ELSE Ret(List(ProcessFilings(filings.val, included.map)))

\* get_filings from the response of make_xbrl_request on.
get_filings(response_data) ==
    IF ~Truthy(response_data) THEN Ret(List(<<>>))
    ELSE IF response_data.t # "dict" THEN Exc("AttributeError", <<>>)
    ELSE IF ~Truthy(Get(response_data, "data", Null)) THEN Ret(List(<<>>))
    ELSE
    LET items == Iterate(Get(response_data, "included", List(<<>>)))
    IN  IF items.kind = "raise" THEN items
        ELSE
        LET included == IncludedEntities(items.val, NoEntities)
        IN  IF included.kind = "raise" THEN Exc(included.exc, <<>>)
            ELSE
            LET filings == Iterate(response_data.d.data)
            IN  IF filings.kind = "raise" THEN filings
                ELSE Ret(List(ProcessFilings(filings.val, included.map)))

Chars_with_ID == <<" ", "w", "i", "t", "h", " ", "I", "D", " ", "'">>
Chars_not_found == <<"'", " ", "n", "o", "t", " ", "f", "o", "u", "n", "d">>

\* The message without the f prefix: the placeholder is not replaced.
FilingNotFoundLiteral(filing_id) ==
    <<"F", "i", "l", "i", "n", "g">> \o Chars_with_ID
        \o <<"{", "f", "i", "l", "i", "n", "g", "_", "i", "d", "}">> \o Chars_not_found

\* f"Filing with ID '{filing_id}' not found"
FilingNotFound(filing_id) ==
    <<"F", "i", "l", "i", "n", "g">> \o Chars_with_ID \o filing_id \o Chars_not_found

\* f"Entity with ID '{entity_id}' not found"
EntityNotFound(entity_id) ==
    <<"E", "n", "t", "i", "t", "y">> \o Chars_with_ID \o entity_id \o Chars_not_found

\* The loop without its break: the last included entity wins.
RECURSIVE LastEntityName(_)
LastEntityName(items) ==
    IF items = <<>> THEN Ret(UnknownEntity)
    ELSE LET item == Head(items)
             rest == LastEntityName(Tail(items))
         IN  IF item.t # "dict" THEN Exc("AttributeError", <<>>)
             ELSE IF Get(item, "type", Null) # TypeEntities THEN rest
             ELSE IF Get(item, "attributes", EmptyDict).t # "dict"
                  THEN Exc("AttributeError", <<>>)
             ELSE IF rest.kind = "raise" \/ rest.val # UnknownEntity THEN rest
             ELSE Ret(Get(Get(item, "attributes", EmptyDict), "name", UnknownEntity))

\* The "Find entity information" loop of get_filing: the name of the first
\* included item of type "entities", or an exception raised on the way to it.
RECURSIVE FirstEntityName(_)
FirstEntityName(items) ==
    IF items = <<>> THEN Ret(UnknownEntity)
    ELSE LET item == Head(items)
         IN  IF item.t # "dict" THEN Exc("AttributeError", <<>>)
             ELSE IF Get(item, "type", Null) # TypeEntities
                  THEN FirstEntityName(Tail(items))
             ELSE IF Get(item, "attributes", EmptyDict).t # "dict"
                  THEN Exc("AttributeError", <<>>)
             ELSE Ret(Get(Get(item, "attributes", EmptyDict), "name", UnknownEntity))

\* get_filing from the response of make_xbrl_request on.
get_filing(filing_id, response_data) ==
    IF ~Truthy(response_data) THEN Exc("Exception", FilingNotFound(filing_id))
    ELSE IF response_data.t # "dict" THEN Exc("AttributeError", <<>>)
    ELSE IF ~Truthy(Get(response_data, "data", Null))
         THEN Exc("Exception", FilingNotFound(filing_id))
    ELSE
    LET filing == response_data.d.data
    IN  IF filing.t # "dict" THEN Exc("AttributeError", <<>>)
        ELSE
        LET attributes == Get(filing, "attributes", EmptyDict)
            items == Iterate(Get(response_data, "included", List(<<>>)))
        IN  IF items.kind = "raise" THEN items
            ELSE
            LET entity_name == FirstEntityName(items.val)
            IN  IF entity_name.kind = "raise" THEN entity_name
                ELSE IF attributes.t # "dict" THEN Exc("AttributeError", <<>>)
                ELSE
                LET date == ProcessDate(attributes)
                IN  IF date.kind = "raise" THEN date
                    ELSE Ret(FilingRecord(filing, attributes,
                                          entity_name.val, date.val))

\* get_entity from the response of make_xbrl_request on.
get_entity(entity_id, response_data) ==
    IF ~Truthy(response_data) THEN Exc("Exception", EntityNotFound(entity_id))
    ELSE IF response_data.t # "dict" THEN Exc("AttributeError", <<>>)
    ELSE IF ~Truthy(Get(response_data, "data", Null))
         THEN Exc("Exception", EntityNotFound(entity_id))
    ELSE
    LET entity == response_data.d.data
    IN  IF entity.t # "dict" THEN Exc("AttributeError", <<>>)
        ELSE
        LET attributes == Get(entity, "attributes", EmptyDict)
        IN  IF attributes.t # "dict" THEN Exc("AttributeError", <<>>)
            ELSE Ret(Dict([id |-> Get(entity, "id", Null),
                           name |-> Get(attributes, "name", Null),
                           lei |-> Get(attributes, "lei", Null),
                           cik |-> Get(attributes, "cik", Null),
                           sic |-> Get(attributes, "sic", Null)]))

----------------------------------------------------------------------------
(* Requests *)

\* The api_params with the country upper-cased and not stripped.
api_params_not_stripped(country, page_size, page_number) ==
    Dict(("page[size]" :> Str(PyStr(page_size)))
         @@ ("page[number]" :> Str(PyStr(page_number)))
         @@ ("sort" :> SortProcessed)
         @@ ("include" :> IncludeEntity)
         @@ ("filter[country]" :>
                IF Truthy(country) THEN Str(Upper(country.s)) ELSE Absent))

\* The api_params of get_filings.
api_params(country, page_size, page_number) ==
    Dict(("page[size]" :> Str(PyStr(page_size)))
         @@ ("page[number]" :> Str(PyStr(page_number)))
         @@ ("sort" :> SortProcessed)
         @@ ("include" :> IncludeEntity)
         @@ ("filter[country]" :>
                IF Truthy(country) THEN Str(Strip(Upper(country.s))) ELSE Absent))

\* The api_params of get_filing.
FilingParams == Dict(("include" :> IncludeEntity))

Chars_filings == <<"/", "f", "i", "l", "i", "n", "g", "s">>
Chars_entities == <<"/", "e", "n", "t", "i", "t", "i", "e", "s">>

USER_AGENT ==
    <<"x", "b", "r", "l", "-", "m", "c", "p", "-", "s", "e", "r", "v", "e", "r", "/", "1", ".", "0">>
Chars_vnd_api_json == <<"v", "n", "d", ".", "a", "p", "i", "+", "j", "s", "o", "n">>

\* The headers of every request.
headers ==
    Dict(("User-Agent" :> Str(USER_AGENT))
         @@ ("Accept" :> Str(<<"a", "p", "p", "l", "i", "c", "a", "t", "i", "o", "n", "/">>
                               \o Chars_vnd_api_json)))

\* The url and params a handler hands to make_xbrl_request, and the headers
\* make_xbrl_request adds.
RequestOf(c) ==
    CASE c.op = "get_filings" ->
            [url |-> XBRL_API_BASE \o Chars_filings,
             headers |-> headers,
             params |-> api_params(c.country, c.page_size, c.page_number)]
      [] c.op = "get_filing" ->
            [url |-> XBRL_API_BASE \o Chars_filings \o <<"/">> \o c.id,
             headers |-> headers,
             params |-> FilingParams]
      [] c.op = "get_entity" ->
            [url |-> XBRL_API_BASE \o Chars_entities \o <<"/">> \o c.id,
             headers |-> headers,
             params |-> Null]

NoCall == [op |-> "none", id |-> <<>>, country |-> Null, page_size |-> 0, page_number |-> 0]
NoRequest == [url |-> <<>>, headers |-> Null, params |-> Null]

GetFilingsCall(country, page_size, page_number) ==
    [op |-> "get_filings", id |-> <<>>, country |-> country,
     page_size |-> page_size, page_number |-> page_number]
GetFilingCall(filing_id) ==
    [op |-> "get_filing", id |-> filing_id, country |-> Null,
     page_size |-> 0, page_number |-> 0]
GetEntityCall(entity_id) ==
    [op |-> "get_entity", id |-> entity_id, country |-> Null,
     page_size |-> 0, page_number |-> 0]

\* The handler from the response of make_xbrl_request on.
BodyOf(c, response_data) ==
    CASE c.op = "get_filings" -> get_filings(response_data)
      [] c.op = "get_filing" -> get_filing(c.id, response_data)
      [] c.op = "get_entity" -> get_entity(c.id, response_data)

----------------------------------------------------------------------------
(* Upstream outcomes of client.get *)

NoReply == [kind |-> "none", status |-> 0, json |-> FALSE, body |-> Null]
NetworkError == [kind |-> "network", status |-> 0, json |-> FALSE, body |-> Null]
Timeout == [kind |-> "timeout", status |-> 0, json |-> FALSE, body |-> Null]
\* A response with a status and a body that parses to the document doc.
Http(status, doc) == [kind |-> "http", status |-> status, json |-> TRUE, body |-> doc]
\* A response whose body is not JSON.
HttpNoJson(status) == [kind |-> "http", status |-> status, json |-> FALSE, body |-> Null]

\* A raise_for_status that lets 1xx and 3xx responses through.
RaisesForClientOrServerError(status) == status >= 400

\* response.raise_for_status() raises.
RaisesForStatus(status) == ~(200 <= status /\ status <= 299)

\* The try body of make_xbrl_request from the completion of client.get on:
\* the value it returns or the exception that leaves the async with block.
make_xbrl_request(outcome) ==
    CASE outcome.kind = "network" -> Exc("ConnectError", <<>>)
      [] outcome.kind = "timeout" -> Exc("TimeoutException", <<>>)
      [] outcome.kind = "http" ->
            IF RaisesForStatus(outcome.status) THEN Exc("HTTPStatusError", <<>>)
            ELSE IF ~outcome.json THEN Exc("JSONDecodeError", <<>>)
            ELSE Ret(outcome.body)

\* What the handler does with what make_xbrl_request returned or raised:
\* an exception is logged and raised again, a document is processed.
HandlerResult(c, made) ==
    IF made.kind = "raise" THEN made ELSE BodyOf(c, made.val)

----------------------------------------------------------------------------
(* The state machine *)

NProcs == 2
Procs == 1..NProcs

Init ==
    /\ pc = [p \in Procs |-> "idle"]
    /\ call = [p \in Procs |-> NoCall]
    /\ request = [p \in Procs |-> NoRequest]
    /\ client = [p \in Procs |-> 0]
    /\ open = {}
    /\ nextClient = 0
    /\ sent = [p \in Procs |-> 0]
    /\ reply = [p \in Procs |-> NoReply]
    /\ pending = [p \in Procs |-> NoResult]
    /\ result = [p \in Procs |-> NoResult]

\* A handler runs up to the await of client.get in make_xbrl_request: it
\* builds its parameters, enters a new AsyncClient and issues the GET.
Call(p, c) ==
    /\ pc[p] = "idle"
    /\ pc' = [pc EXCEPT ![p] = "awaiting"]
    /\ call' = [call EXCEPT ![p] = c]
    /\ request' = [request EXCEPT ![p] = RequestOf(c)]
    /\ nextClient' = nextClient + 1
    /\ client' = [client EXCEPT ![p] = nextClient + 1]
    /\ open' = open \cup {nextClient + 1}
    /\ sent' = [sent EXCEPT ![p] = @ + 1]
    /\ UNCHANGED <<reply, pending, result>>

\* client.get completes; raise_for_status and json run, and the async with
\* block is left (by the return or by the exception): __aexit__ is awaited.
Reply(p, outcome) ==
    /\ pc[p] = "awaiting"
    /\ pc' = [pc EXCEPT ![p] = "closing"]
    /\ reply' = [reply EXCEPT ![p] = outcome]
    /\ pending' = [pending EXCEPT ![p] = make_xbrl_request(outcome)]
    /\ UNCHANGED <<call, request, client, open, nextClient, sent, result>>

\* A make_xbrl_request that closes its client on the success path only.
CloseOnSuccessOnly(p) ==
    /\ pc[p] = "closing"
    /\ pc' = [pc EXCEPT ![p] = "done"]
    /\ open' = IF pending[p].kind = "raise" THEN open ELSE open \ {client[p]}
    /\ client' = [client EXCEPT ![p] = 0]
    /\ result' = [result EXCEPT ![p] = HandlerResult(call[p], pending[p])]
    /\ UNCHANGED <<call, request, nextClient, sent, reply, pending>>

\* __aexit__ completes: the client is closed, make_xbrl_request returns or
\* raises, and the handler runs to its end.
Close(p) ==
    /\ pc[p] = "closing"
    /\ pc' = [pc EXCEPT ![p] = "done"]
    /\ open' = open \ {client[p]}
    /\ client' = [client EXCEPT ![p] = 0]
    /\ result' = [result EXCEPT ![p] = HandlerResult(call[p], pending[p])]
    /\ UNCHANGED <<call, request, nextClient, sent, reply, pending>>

----------------------------------------------------------------------------
(* JSON:API documents *)

\* A resource object; a member that is Absent is not in the object.
Resource(type, id, attributes, relationships) ==
    Dict([type |-> type, id |-> id, attributes |-> attributes,
          relationships |-> relationships])

TypeFilings == Str(<<"f", "i", "l", "i", "n", "g", "s">>)

\* The relationships member naming the entity with the given id.
EntityRel(id) == Dict([entity |-> Dict([data |-> Dict([type |-> TypeEntities, id |-> id])])])

\* The attributes of an entity with the given name.
Named(name) == Dict([name |-> name])

\* A document with the given data and included members.
Document(data, included) == Dict([data |-> data, included |-> included])

IdA == Str(<<"a">>)
IdB == Str(<<"b">>)
NameN == Str(<<"N">>)
NameM == Str(<<"M">>)

EntityA == Resource(TypeEntities, IdA, Named(NameN), Absent)
FilingOfA ==
    Resource(TypeFilings, Str(<<"f">>),
             Dict([processed |-> Str(<<"2", "T", "1">>), country |-> Str(<<"U", "S">>)]),
             EntityRel(IdA))

----------------------------------------------------------------------------
(* Spec: the invocations interleaved, every outcome of the upstream GET *)

TransportCalls ==
    {GetFilingsCall(Null, 5, 1), GetFilingCall(<<"f">>), GetEntityCall(<<"a">>)}

\* The documents the upstream answers a call of the tool op with.
TransportDocs(op) ==
    CASE op = "get_filings" ->
            {Document(List(<<FilingOfA>>), List(<<EntityA>>)), Document(List(<<>>), Absent)}
      [] op = "get_filing" ->
            {Document(FilingOfA, List(<<EntityA>>)), Document(Null, Absent)}
      [] op = "get_entity" ->
            {Document(EntityA, Absent), Document(Null, Absent)}
      [] OTHER -> {}

TransportOutcomes(op) ==
    {NetworkError, Timeout, HttpNoJson(200)}
      \cup {Http(200, d) : d \in TransportDocs(op)}
      \cup {Http(s, Document(Absent, Absent)) : s \in {301, 404, 500}}

Next ==
    \/ \E p \in Procs : \E c \in TransportCalls : Call(p, c)
    \/ \E p \in Procs :
          pc[p] = "awaiting" /\ \E o \in TransportOutcomes(call[p].op) : Reply(p, o)
    \/ \E p \in Procs : Close(p)

Spec == Init /\ [][Next]_vars

\* The upstream GET ended in a network failure, a timeout or a non-2xx status.
TransportFailure(o) ==
    \/ o.kind \in {"network", "timeout"}
    \/ o.kind = "http" /\ o.status \notin 200..299

\* C5: in all three operations, when the upstream GET ends in a network
\* failure, a timeout or a non-2xx status, the operation ends by raising that
\* failure to its caller (it returns nothing, no record and no empty list),
\* and no invocation ever issues a second GET.
C5_FailurePropagated ==
    \A p \in Procs :
        /\ sent[p] <= 1
        /\ (pc[p] = "done" /\ TransportFailure(reply[p])) =>
              /\ result[p].kind = "raise"
              /\ result[p].exc \in {"ConnectError", "TimeoutException", "HTTPStatusError"}
              /\ sent[p] = 1

\* Each of the three operations has ended on each kind of failure.
C5_Witness ==
    /\ \E p \in Procs :
          /\ pc[p] = "done" /\ call[p].op = "get_filings"
          /\ reply[p].kind = "http" /\ reply[p].status = 301
          /\ result[p].kind = "raise"
    /\ \E p \in Procs :
          /\ pc[p] = "done" /\ call[p].op # "get_filings"
          /\ reply[p].kind \in {"network", "timeout"}
          /\ result[p].kind = "raise"

\* C6: every call of make_xbrl_request holds a client of its own while it
\* runs, and has released it when it completes, whatever the outcome and
\* however the invocations interleave: the open clients are exactly those
\* of the calls still running.
C6_ClientReleased ==
    /\ \A p \in Procs : pc[p] \in {"idle", "done"} => client[p] = 0
    /\ \A p \in Procs : pc[p] \in {"awaiting", "closing"} => client[p] \in open
    /\ open = {client[p] : p \in {q \in Procs : client[q] # 0}}
    /\ \A p, q \in Procs : p # q /\ client[p] # 0 => client[p] # client[q]

\* A call has completed on a failure while another, started before it
\* completed, still holds its client.
C6_Witness ==
    \E p, q \in Procs :
        /\ pc[p] = "done" /\ result[p].kind = "raise"
        /\ TransportFailure(reply[p])
        /\ pc[q] = "awaiting" /\ client[q] = 1
        /\ open = {client[q]}

----------------------------------------------------------------------------
(* SpecNoData: one invocation, answered with documents that hold no data *)

NoDataIds == {<<"X">>, <<"4", "2">>}

NoDataCalls ==
    {GetFilingsCall(c, s, n) : c \in {Null, Str(<<"u", "s">>)}, s \in {0, 5}, n \in {1, 2}}
      \cup {GetFilingCall(i) : i \in NoDataIds}
      \cup {GetEntityCall(i) : i \in NoDataIds}

\* What a document without data may hold as its data and included members.
EmptyData == {Absent, Null, List(<<>>), EmptyDict, Str(<<>>)}
AnyIncluded == {Absent, Null, Num(7), List(<<>>), List(<<EntityA>>), List(<<Null, EntityA>>)}

\* The bodies null, {} and [], and the documents without data; and, beside
\* them, the documents with data of Spec.
NoDataDocs(op) ==
    {Null, List(<<>>)}
      \cup {Document(d, i) : d \in EmptyData, i \in AnyIncluded}
      \cup TransportDocs(op)

NoDataOutcomes(op) == {NetworkError} \cup {Http(200, d) : d \in NoDataDocs(op)}

NextNoData ==
    \/ \E c \in NoDataCalls : Call(1, c)
    \/ pc[1] = "awaiting" /\ \E o \in NoDataOutcomes(call[1].op) : Reply(1, o)
    \/ Close(1)

SpecNoData == Init /\ [][NextNoData]_vars

\* The upstream call succeeded: a 2xx response whose body parsed.
Succeeded(o) == o.kind = "http" /\ o.status \in 200..299 /\ o.json

\* v is a dict without keys.
NoKeys(v) == v.t = "dict" /\ \A k \in DOMAIN v.d : v.d[k] = Absent

\* The response is empty, or its data key is missing, or its data is null
\* or empty.
NoData(doc) ==
    \/ doc \in {Null, List(<<>>)}
    \/ NoKeys(doc)
    \/ doc.t = "dict" /\ "data" \in DOMAIN doc.d
         /\ (doc.d.data \in {Absent, Null, List(<<>>), Str(<<>>)} \/ NoKeys(doc.d.data))

Chars_not_found_words == <<"n", "o", "t", " ", "f", "o", "u", "n", "d">>

\* C3: get_filing and get_entity called with id X, when the upstream call
\* succeeds with a response that has no data, raise an error whose message
\* says "not found" and contains X, and return no record.
C3_NotFoundNamesId ==
    \A p \in Procs :
        (/\ pc[p] = "done"
         /\ call[p].op \in {"get_filing", "get_entity"}
         /\ Succeeded(reply[p])
         /\ NoData(reply[p].body)) =>
            /\ result[p].kind = "raise"
            /\ Contains(result[p].msg, call[p].id)
            /\ Contains(result[p].msg, Chars_not_found_words)

\* get_entity("42") has ended on a response whose data is null.
C3_Witness ==
    /\ pc[1] = "done"
    /\ call[1] = GetEntityCall(<<"4", "2">>)
    /\ reply[1] = Http(200, Document(Null, Absent))
    /\ result[1].kind = "raise"
    /\ result[1].msg = EntityNotFound(<<"4", "2">>)

\* The response has zero data entries: it is empty, or its data is missing,
\* null or an empty array.
ZeroDataEntries(doc) ==
    \/ doc \in {Null, List(<<>>)}
    \/ NoKeys(doc)
    \/ doc.t = "dict" /\ "data" \in DOMAIN doc.d /\ doc.d.data \in {Absent, Null, List(<<>>)}

\* C4: get_filings, when the upstream call succeeds with a response that has
\* zero data entries, returns the empty list and raises nothing, whatever its
\* arguments and whatever the included member holds.
C4_EmptyListOnNoData ==
    \A p \in Procs :
        (/\ pc[p] = "done"
         /\ call[p].op = "get_filings"
         /\ Succeeded(reply[p])
         /\ ZeroDataEntries(reply[p].body)) =>
            result[p] = Ret(List(<<>>))

\* get_filings("us", 0, 2) has ended on a response whose data is null and
\* whose included member is not even a list.
C4_Witness ==
    /\ pc[1] = "done"
    /\ call[1] = GetFilingsCall(Str(<<"u", "s">>), 0, 2)
    /\ reply[1] = Http(200, Document(Null, Num(7)))
    /\ result[1] = Ret(List(<<>>))

----------------------------------------------------------------------------
(* SpecEntities: one invocation of get_filings or get_filing, answered with *)
(* documents whose filings and included resources vary in how they name the *)
(* entity                                                                   *)

MaxFilings == 2
MaxIncluded == 2

GoodAttributes ==
    Dict([processed |-> Str(<<"2", "T", "1">>), country |-> Str(<<"U", "S">>)])

\* A filing with the given id digit and relationships member.
FilingNo(k, relationships) ==
    Resource(TypeFilings, Str(<<Digit(k)>>), GoodAttributes, relationships)

\* Filings naming entity a, naming entity b, without relationships, without
\* an entity relationship, with an entity relationship without data, with one
\* whose data is null; and a filing that is null and one whose attributes are
\* null.
EntityFilings ==
    {FilingNo(1, EntityRel(IdA)),
     FilingNo(2, EntityRel(IdB)),
     FilingNo(3, Absent),
     FilingNo(4, Dict([entity |-> Absent])),
     FilingNo(5, Dict([entity |-> Dict([data |-> Absent])])),
     FilingNo(6, Dict([entity |-> Dict([data |-> Null])])),
     Null,
     Resource(TypeFilings, Str(<<Digit(8)>>), Null, EntityRel(IdA))}

\* Included resources: the entities a (named N) and b (named M), a resource
\* of another type with the id a, and an entity b without attributes.
IncludedResources ==
    {EntityA,
     Resource(TypeEntities, IdB, Named(NameM), Absent),
     Resource(TypeFilings, IdA, Named(NameM), Absent),
     Resource(TypeEntities, IdB, Absent, Absent)}

\* The sequences over S of the lengths lo..hi.
SeqsOf(S, lo, hi) == UNION {[1..n -> S] : n \in lo..hi}

EntityIncluded == {Absent} \cup {List(l) : l \in SeqsOf(IncludedResources, 0, MaxIncluded)}

EntityCalls == {GetFilingsCall(Null, 5, 1), GetFilingCall(<<"1">>)}

EntityDocs(op) ==
    CASE op = "get_filings" ->
            {Document(List(l), i) : l \in SeqsOf(EntityFilings, 0, MaxFilings),
                                    i \in EntityIncluded}
      [] op = "get_filing" ->
            {Document(f, i) : f \in EntityFilings, i \in EntityIncluded}
      [] OTHER -> {}

EntityOutcomes(op) == {NetworkError} \cup {Http(200, d) : d \in EntityDocs(op)}

NextEntities ==
    \/ \E c \in EntityCalls : Call(1, c)
    \/ pc[1] = "awaiting" /\ \E o \in EntityOutcomes(call[1].op) : Reply(1, o)
    \/ Close(1)

SpecEntities == Init /\ [][NextEntities]_vars

\* The items of the included member of a document (none when it is absent).
IncludedOf(doc) == IF Has(doc, "included") THEN doc.d.included.l ELSE <<>>

\* The positions of the included resources of type "entities".
EntityPositions(doc) ==
    {j \in 1..Len(IncludedOf(doc)) : IncludedOf(doc)[j].d.type = TypeEntities}

\* get_filings or get_filing has ended on a response that parsed, with data.
EndedOn(p, op) ==
    /\ pc[p] = "done"
    /\ call[p].op = op
    /\ Succeeded(reply[p])
    /\ Truthy(reply[p].body.d.data)

\* The dict included_entities get_filings builds from a document.
EntityMap(doc) == IncludedEntities(IncludedOf(doc), NoEntities).map

\* The id in relationships.entity.data.id of a filing, or Null when the filing
\* has no relationships, no entity relationship, or entity data that is
\* absent or null.
RelatedId(f) ==
    IF ~Has(f, "relationships") \/ ~Has(f.d.relationships, "entity")
          \/ ~Has(f.d.relationships.d.entity, "data")
          \/ f.d.relationships.d.entity.d.data = Null
    THEN Null
    ELSE f.d.relationships.d.entity.d.data.d.id

\* The names entity_name may take for filing f: the names of the included
\* entities with the id the filing names ("Unknown Entity" for one without a
\* name), and "Unknown Entity" when there is none.
ResolvedNames(f, doc) ==
    LET matching == {j \in EntityPositions(doc) : IncludedOf(doc)[j].d.id = RelatedId(f)}
    IN  IF matching = {} THEN {UnknownEntity}
        ELSE {Get(Get(IncludedOf(doc)[j], "attributes", EmptyDict), "name", UnknownEntity) :
                 j \in matching}

\* A filing that is an object with attributes, whatever its relationships.
HasAttributes(f) == f.t = "dict" /\ Has(f, "attributes") /\ f.d.attributes.t = "dict"

\* C1: get_filings returns one record for every filing of the response, in
\* order; its entity_name is the name of the included entity the filing's
\* relationships.entity.data.id names, and "Unknown Entity" in every other
\* case (no relationships, no entity relationship, entity data absent or
\* null, id not in included, included resource of another type).
C1_EntityNameResolved ==
    \A p \in Procs :
        (/\ EndedOn(p, "get_filings")
         /\ \A i \in 1..Len(reply[p].body.d.data.l) :
               HasAttributes(reply[p].body.d.data.l[i])) =>
            LET doc == reply[p].body
                data == doc.d.data.l
            IN  /\ result[p].kind = "return"
                /\ Len(result[p].val.l) = Len(data)
                /\ \A i \in 1..Len(data) :
                      /\ result[p].val.l[i].d.id = data[i].d.id
                      /\ result[p].val.l[i].d.entity_name \in ResolvedNames(data[i], doc)

\* The processing of filing f of the document raises.
Raises(f, doc) == ProcessFiling(f, EntityMap(doc)).kind = "raise"

\* C2: when exactly one of the N filings of the response is malformed (its
\* processing raises), get_filings raises nothing and returns exactly the
\* records of the N-1 others, in their order.
C2_MalformedSkipped ==
    \A p \in Procs :
        (/\ EndedOn(p, "get_filings")
         /\ Cardinality({i \in 1..Len(reply[p].body.d.data.l) :
                            Raises(reply[p].body.d.data.l[i], reply[p].body)}) = 1) =>
            LET doc == reply[p].body
                data == doc.d.data.l
                WellFormed(f) == ~Raises(f, doc)
                others == SelectSeq(data, WellFormed)
            IN  /\ result[p].kind = "return"
                /\ Len(result[p].val.l) = Len(data) - 1
                /\ \A i \in 1..(Len(data) - 1) :
                      /\ result[p].val.l[i].d.id = others[i].d.id
                      /\ result[p].val.l[i] = ProcessFiling(others[i], EntityMap(doc)).val

\* get_filings has ended on a response of MaxFilings filings whose first has
\* null attributes, and has returned the records of the others.
C2_Witness ==
    /\ EndedOn(1, "get_filings")
    /\ Len(reply[1].body.d.data.l) = MaxFilings
    /\ reply[1].body.d.data.l[1].t = "dict"
    /\ reply[1].body.d.data.l[1].d.attributes = Null
    /\ \A i \in 2..MaxFilings : ~Raises(reply[1].body.d.data.l[i], reply[1].body)
    /\ result[1].kind = "return"
    /\ Len(result[1].val.l) = MaxFilings - 1

\* C10: get_filing takes entity_name from the first included resource of
\* type "entities", in array order and whatever id the filing's relationship
\* names; without such a resource (or without included) entity_name is
\* "Unknown Entity".
C10_FirstIncludedEntity ==
    \A p \in Procs :
        (EndedOn(p, "get_filing") /\ HasAttributes(reply[p].body.d.data)) =>
            LET doc == reply[p].body
                first == CHOOSE j \in EntityPositions(doc) :
                             \A k \in EntityPositions(doc) : j <= k
            IN  /\ result[p].kind = "return"
                /\ EntityPositions(doc) = {} =>
                      result[p].val.d.entity_name = UnknownEntity
                /\ (EntityPositions(doc) # {} /\ Has(IncludedOf(doc)[first], "attributes")) =>
                      result[p].val.d.entity_name = IncludedOf(doc)[first].d.attributes.d.name

\* get_filing has ended on a filing that names entity b while the first
\* included entity, after a resource of another type, is a: the name is a's.
C10_Witness ==
    /\ EndedOn(1, "get_filing")
    /\ RelatedId(reply[1].body.d.data) = IdB
    /\ Len(IncludedOf(reply[1].body)) = MaxIncluded
    /\ IncludedOf(reply[1].body)[1].d.type # TypeEntities
    /\ IncludedOf(reply[1].body)[MaxIncluded] = EntityA
    /\ result[1].val.d.entity_name = NameN

----------------------------------------------------------------------------
(* SpecFields: one invocation of get_filings or get_filing, answered with  *)
(* filings whose attributes vary                                            *)

MaxLen == 3

\* "2024-03-01T10:00:00Z"
ExampleTimestamp ==
    <<"2", "0", "2", "4", "-", "0", "3", "-", "0", "1", "T",
      "1", "0", ":", "0", "0", ":", "0", "0", "Z">>

\* The processed attribute: absent, null, the example, and every string of
\* the characters 2 and T up to MaxLen long (the empty string among them).
ProcessedValues ==
    {Absent, Null, Str(ExampleTimestamp)}
      \cup {Str(cs) : cs \in SeqsOf({"2", "T"}, 0, MaxLen)}

\* The errors_count and warnings_count attributes, each absent or present.
CountValues ==
    {<<Num(3), Absent>>, <<Absent, Num(2)>>, <<Num(0), Num(4)>>, <<Null, Num(1)>>}

\* A filing with the given processed, errors_count and warnings_count.
FieldFiling(processed, errors_count, warnings_count) ==
    Resource(TypeFilings, Str(<<"f">>),
             Dict([processed |-> processed, country |-> Str(<<"U", "S">>),
                   errors_count |-> errors_count, warnings_count |-> warnings_count]),
             EntityRel(IdA))

FieldFilings ==
    {FieldFiling(t, Absent, Absent) : t \in ProcessedValues}
      \cup {FieldFiling(Str(<<"2", "T", "1">>), c[1], c[2]) : c \in CountValues}
      \cup {Resource(TypeFilings, Str(<<"f">>), Absent, Absent)}

FieldCalls == {GetFilingsCall(Null, 5, 1), GetFilingCall(<<"f">>)}

FieldDocs(op) ==
    CASE op = "get_filings" ->
            {Document(List(l), List(<<EntityA>>)) : l \in SeqsOf(FieldFilings, 0, MaxFilings)}
      [] op = "get_filing" ->
            {Document(f, List(<<EntityA>>)) : f \in FieldFilings}
      [] OTHER -> {}

FieldOutcomes(op) == {NetworkError} \cup {Http(200, d) : d \in FieldDocs(op)}

NextFields ==
    \/ \E c \in FieldCalls : Call(1, c)
    \/ pc[1] = "awaiting" /\ \E o \in FieldOutcomes(call[1].op) : Reply(1, o)
    \/ Close(1)

SpecFields == Init /\ [][NextFields]_vars

\* The filings of the response and the records returned for them, in order:
\* those of a list response, the one of a single response.
FilingsOf(p) ==
    IF call[p].op = "get_filings" THEN reply[p].body.d.data.l ELSE <<reply[p].body.d.data>>
RecordsOf(p) ==
    IF call[p].op = "get_filings" THEN result[p].val.l ELSE <<result[p].val>>

\* get_filings or get_filing has returned the records of the response.
Returned(p) ==
    /\ EndedOn(p, "get_filings") \/ EndedOn(p, "get_filing")
    /\ result[p].kind = "return"
    /\ Len(RecordsOf(p)) = Len(FilingsOf(p))

\* The attribute k of filing f, Absent when the filing has no attributes or
\* its attributes have no k.
Attribute(f, k) ==
    IF Has(f, "attributes") /\ k \in DOMAIN f.d.attributes.d THEN f.d.attributes.d[k]
    ELSE Absent

\* date is the text of the timestamp ts before its first T.
BeforeFirstT(date, ts) ==
    \E k \in 1..Len(ts) :
        /\ ts[k] = "T"
        /\ \A j \in 1..(k - 1) : ts[j] # "T"
        /\ date = Str(SubSeq(ts, 1, k - 1))

\* C7: the processed_date get_filings and get_filing return is the text of
\* the processed attribute before its first T; for a processed attribute that
\* is absent, null, empty or without a T it is null.
C7_ProcessedDate ==
    \A p \in Procs :
        (EndedOn(p, "get_filings") \/ EndedOn(p, "get_filing")) =>
            /\ Returned(p)
            /\ \A i \in 1..Len(FilingsOf(p)) :
                  LET ts == Attribute(FilingsOf(p)[i], "processed")
                      date == RecordsOf(p)[i].d.processed_date
                  IN  IF ts.t = "str" /\ \E k \in 1..Len(ts.s) : ts.s[k] = "T"
                      THEN BeforeFirstT(date, ts.s)
                      ELSE date = Null

\* get_filings has returned "2024-03-01" for "2024-03-01T10:00:00Z", after a
\* record with a null date for a timestamp without a T.
C7_Witness ==
    /\ Returned(1)
    /\ call[1].op = "get_filings"
    /\ Len(FilingsOf(1)) = MaxFilings
    /\ Attribute(FilingsOf(1)[1], "processed") = Str(<<"2", "2">>)
    /\ RecordsOf(1)[1].d.processed_date = Null
    /\ Attribute(FilingsOf(1)[MaxFilings], "processed") = Str(ExampleTimestamp)
    /\ RecordsOf(1)[MaxFilings].d.processed_date = Str(SubSeq(ExampleTimestamp, 1, 10))

\* C9: in every record get_filings and get_filing return, errors_count and
\* warnings_count are the upstream values, and 0 where the upstream
\* attributes have none.
C9_CountDefaults ==
    \A p \in Procs :
        (EndedOn(p, "get_filings") \/ EndedOn(p, "get_filing")) =>
            /\ Returned(p)
            /\ \A i \in 1..Len(FilingsOf(p)) :
                  \A k \in {"errors_count", "warnings_count"} :
                      RecordsOf(p)[i].d[k] =
                          IF Attribute(FilingsOf(p)[i], k) = Absent THEN Num(0)
                          ELSE Attribute(FilingsOf(p)[i], k)

\* get_filing has returned errors_count 3 and warnings_count 0 for a filing
\* with errors_count 3 and no warnings_count.
C9_Witness ==
    /\ Returned(1)
    /\ call[1].op = "get_filing"
    /\ Attribute(FilingsOf(1)[1], "errors_count") = Num(3)
    /\ Attribute(FilingsOf(1)[1], "warnings_count") = Absent
    /\ RecordsOf(1)[1].d.errors_count = Num(3)
    /\ RecordsOf(1)[1].d.warnings_count = Num(0)

----------------------------------------------------------------------------
(* SpecParams: one invocation of get_filings, its arguments varied *)

MaxPage == 10

\* The country argument: None, and every string of the characters u, s and
\* space up to MaxLen long (the empty string among them).
Countries == {Null} \cup {Str(cs) : cs \in SeqsOf({"u", "s", " "}, 0, MaxLen)}

ParamCalls ==
    {GetFilingsCall(c, s, n) : c \in Countries, s \in 0..MaxPage, n \in {1, MaxPage + 1}}

ParamOutcomes ==
    {NetworkError, Http(200, Document(List(<<FilingOfA>>), List(<<EntityA>>)))}

NextParams ==
    \/ \E c \in ParamCalls : Call(1, c)
    \/ \E o \in ParamOutcomes : Reply(1, o)
    \/ Close(1)

SpecParams == Init /\ [][NextParams]_vars

\* s with its lower-case letters u and s replaced by their capitals.
CapitalsOf(s) ==
    [k \in 1..Len(s) |-> CASE s[k] = "u" -> "U" [] s[k] = "s" -> "S" [] OTHER -> s[k]]

\* r is s without the whitespace at its two ends.
IsTrimOf(r, s) ==
    \E i \in 1..(Len(s) + 1), j \in 0..Len(s) :
        /\ r = SubSeq(s, i, j)
        /\ \A k \in 1..(i - 1) : s[k] \in {" ", "\t", "\n"}
        /\ \A k \in (j + 1)..Len(s) : s[k] \in {" ", "\t", "\n"}
        /\ r # <<>> => r[1] # " " /\ r[Len(r)] # " "

\* The number a string of decimal digits denotes.
RECURSIVE DecimalValue(_)
DecimalValue(cs) ==
    IF cs = <<>> THEN 0
    ELSE 10 * DecimalValue(SubSeq(cs, 1, Len(cs) - 1))
           + (CHOOSE d \in 0..9 : Digit(d) = cs[Len(cs)])

\* C8: the request of get_filings carries filter[country], the country
\* upper-cased and trimmed, when a country is supplied, and no filter[country]
\* when none is (None or the empty string); it always carries page[size],
\* page[number], sort=-processed and include=entity.
C8_CountryFilter ==
    \A p \in Procs :
        (pc[p] # "idle" /\ call[p].op = "get_filings") =>
            LET params == request[p].params
                country == call[p].country
            IN  /\ params.t = "dict"
                /\ IF country # Null /\ country.s # <<>>
                   THEN /\ Has(params, "filter[country]")
                        /\ IsTrimOf(params.d["filter[country]"].s, CapitalsOf(country.s))
                   ELSE ~Has(params, "filter[country]")
                /\ Has(params, "page[size]")
                /\ DecimalValue(params.d["page[size]"].s) = call[p].page_size
                /\ Has(params, "page[number]")
                /\ DecimalValue(params.d["page[number]"].s) = call[p].page_number
                /\ Get(params, "sort", Null) = SortProcessed
                /\ Get(params, "include", Null) = IncludeEntity

\* get_filings("us", 10, 1) has sent filter[country]=US and page[size]=10.
C8_Witness ==
    /\ pc[1] = "awaiting"
    /\ call[1] = GetFilingsCall(Str(<<"u", "s">>), MaxPage, 1)
    /\ request[1].params.d["filter[country]"] = Str(<<"U", "S">>)
    /\ Len(request[1].params.d["page[size]"].s) = 2

====
